---- MODULE Spec2Model ----
(***************************************************************************)
(* Model of jira_agile_metrics/calculators/cycleflow.py:                   *)
(*   CycleFlowCalculator.run / write / write_chart and                     *)
(*   calculate_cycle_flow_data.                                            *)
(*                                                                         *)
(* Cell values of a table are tagged records [t, n, d]:                    *)
(*   t = "NaT"   missing timestamp / timedelta / float (NaT, NaN)          *)
(*   t = "ts"    a Timestamp, n = day number                               *)
(*   t = "td"    a Timedelta, n = hours                                    *)
(*   t = "float" a float, the rational n/d in lowest terms                 *)
(***************************************************************************)
EXTENDS Integers, Sequences, FiniteSets, TLC

VARIABLES settings, cycle_data, cycle_names, result, pc, error, log, files, rendered

vars == <<settings, cycle_data, cycle_names, result, pc, error, log, files, rendered>>

(* ---- bounds of the model ---- *)
MaxRows == 2
MaxDay == 5
DaysPerPeriod == 2

(* ---- values ---- *)
NaT == [t |-> "NaT", n |-> 0, d |-> 1]
Timestamp(day) == [t |-> "ts", n |-> day, d |-> 1]
Timedelta(hours) == [t |-> "td", n |-> hours, d |-> 1]
HoursPerDay == 24

RECURSIVE Gcd(_, _)
Gcd(a, b) == IF b = 0 THEN a ELSE Gcd(b, a % b)

Float(num, den) ==
  LET g == Gcd(num, den)
  IN  [t |-> "float", n |-> num \div g, d |-> den \div g]

isna(v) == v.t = "NaT"

(* ---- names ---- *)
resample_on == "completed_timestamp"
DurationCol(cycle) == cycle \o " duration"

Range(s) == {s[i] : i \in 1..Len(s)}
SeqMap(F(_), s) == [i \in 1..Len(s) |-> F(s[i])]

(* ---- CycleFlowCalculator.run, lines 26-28 ---- *)
ActiveCyclesFirstOnly(cycle) ==
  IF Len(cycle) <= 1 THEN <<>> ELSE SubSeq(cycle, 2, Len(cycle))

ActiveCycles(cycle) ==
  IF Len(cycle) <= 2 THEN <<>> ELSE SubSeq(cycle, 2, Len(cycle) - 1)

CycleNames(cycle) == SeqMap(LAMBDA s : s.name, ActiveCycles(cycle))

(* ---- a DataFrame: [columns: Seq(STRING), index: Seq(value),             *)
(*      rows: Seq([column -> value])]; index[i] labels rows[i] ---- *)
DataFrame(columns, index, rows) ==
  [columns |-> columns, index |-> index, rows |-> rows]

(* df[[c1, ..., cn]]: the listed columns in the listed order *)
SelectColumns(df, cols) ==
  DataFrame(cols, df.index,
            [i \in 1..Len(df.rows) |-> [c \in Range(cols) |-> df.rows[i][c]]])

HasColumns(df, cols) == Range(cols) \subseteq Range(df.columns)

(* df.fillna(pd.Timedelta(seconds=0)) *)
NoFill(df) == df

FillnaTimedelta(df) ==
  DataFrame(df.columns, df.index,
            [i \in 1..Len(df.rows) |->
               [c \in DOMAIN df.rows[i] |->
                  IF isna(df.rows[i][c]) THEN Timedelta(0) ELSE df.rows[i][c]]])

(* df[df[on] != pd.Timedelta(seconds=0)] *)
KeepAll(df, on) == df

DropMissingTimestamps(df, on) ==
  LET keep == SelectSeq(<<>> \o [i \in 1..Len(df.rows) |-> i],
                        LAMBDA i : df.rows[i][on] # Timedelta(0))
  IN  DataFrame(df.columns,
                [k \in 1..Len(keep) |-> df.index[keep[k]]],
                [k \in 1..Len(keep) |-> df.rows[keep[k]]])

(* df.empty *)
NeverEmpty(df) == FALSE

Empty(df) == Len(df.rows) = 0 \/ Len(df.columns) = 0

(* ---- df.resample(frequency, on=on).agg(np.sum) ----                     *)
(* A bin is labelled by its right edge; the bins run without gap from the  *)
(* bin of the earliest row to the bin of the latest row.  A value that is  *)
(* no Timestamp has the epoch (day 0) as its position.                     *)
DayOf(v) == IF v.t = "ts" THEN v.n ELSE 0

BinLabel(day, frequency) == ((day + frequency - 1) \div frequency) * frequency

RECURSIVE MinDay(_)
MinDay(days) ==
  LET x == CHOOSE y \in days : TRUE
  IN  IF days = {x} THEN x
      ELSE LET m == MinDay(days \ {x}) IN IF x < m THEN x ELSE m

RECURSIVE MaxOfDays(_)
MaxOfDays(days) ==
  LET x == CHOOSE y \in days : TRUE
  IN  IF days = {x} THEN x
      ELSE LET m == MaxOfDays(days \ {x}) IN IF x > m THEN x ELSE m

(* the bin labels first, first + frequency, ..., last *)
OccupiedBinsOnly(days, frequency) ==
  LET labels == {BinLabel(x, frequency) : x \in days}
      RECURSIVE Asc(_)
      Asc(S) == IF S = {} THEN <<>>
                ELSE LET m == MinDay(S) IN <<m>> \o Asc(S \ {m})
  IN  Asc(labels)

Bins(days, frequency) ==
  IF days = {} THEN <<>>
  ELSE
    LET first == BinLabel(MinDay(days), frequency)
        last == BinLabel(MaxOfDays(days), frequency)
    IN  [k \in 1..((last - first) \div frequency + 1) |->
           first + (k - 1) * frequency]

(* np.sum over the Timedelta cells of one column of one bin; NaT is        *)
(* skipped, a bin without any row has no value (NaT)                       *)
RECURSIVE SumHours(_)
SumHours(cells) ==
  IF Len(cells) = 0 THEN 0
  ELSE (IF isna(Head(cells)) THEN 0 ELSE Head(cells).n) + SumHours(Tail(cells))

AggSum(cells) == IF Len(cells) = 0 THEN NaT ELSE Timedelta(SumHours(cells))

Resample(df, frequency, on) ==
  LET days == {DayOf(df.rows[i][on]) : i \in 1..Len(df.rows)}
      bins == Bins(days, frequency)
      valueCols == SelectSeq(df.columns, LAMBDA c : c # on)
      members(b) == SelectSeq(df.rows,
                              LAMBDA r : BinLabel(DayOf(r[on]), frequency) = b)
  IN  DataFrame(valueCols,
                [k \in 1..Len(bins) |-> Timestamp(bins[k])],
                [k \in 1..Len(bins) |->
                   [c \in Range(valueCols) |->
                      AggSum(SeqMap(LAMBDA r : r[c], members(bins[k])))]])

(* ---- sampled[duration_cols] / np.timedelta64(1, 'D') ---- *)
WholeDays(v) == IF isna(v) THEN NaT ELSE Float(v.n \div HoursPerDay, 1)

ToDays(v) == IF isna(v) THEN NaT ELSE Float(v.n, HoursPerDay)

DivideByDay(df, cols) ==
  DataFrame(df.columns, df.index,
            [i \in 1..Len(df.rows) |->
               [c \in DOMAIN df.rows[i] |->
                  IF c \in Range(cols) THEN ToDays(df.rows[i][c])
                  ELSE df.rows[i][c]]])

(* ---- sampled.fillna(0) ---- *)
FillnaZero(df) ==
  DataFrame(df.columns, df.index,
            [i \in 1..Len(df.rows) |->
               [c \in DOMAIN df.rows[i] |->
                  IF isna(df.rows[i][c]) THEN Float(0, 1) ELSE df.rows[i][c]]])

(* ---- pd.CategoricalIndex(columns, ordered=True, categories=...)         *)
(*      followed by sort_index(axis=1): a stable sort of the columns by    *)
(*      the position of each in categories (a column outside categories    *)
(*      is NaN and sorts last) ---- *)
CategoryCode(c, categories) ==
  IF c \in Range(categories)
  THEN CHOOSE i \in 1..Len(categories) :
         categories[i] = c /\ \A j \in 1..(i - 1) : categories[j] # c
  ELSE Len(categories) + 1

RECURSIVE InsertByCode(_, _, _)
InsertByCode(c, sorted, categories) ==
  IF Len(sorted) = 0 THEN <<c>>
  ELSE IF CategoryCode(c, categories) < CategoryCode(Head(sorted), categories)
       THEN <<c>> \o sorted
       ELSE <<Head(sorted)>> \o InsertByCode(c, Tail(sorted), categories)

RECURSIVE SortByCode(_, _)
SortByCode(cols, categories) ==
  IF Len(cols) = 0 THEN <<>>
  ELSE InsertByCode(cols[Len(cols)],
                    SortByCode(SubSeq(cols, 1, Len(cols) - 1), categories),
                    categories)

SortDescending(df, categories) ==
  LET asc == SortByCode(df.columns, categories)
  IN  DataFrame([i \in 1..Len(asc) |-> asc[Len(asc) + 1 - i]], df.index, df.rows)

SortColumns(df, categories) ==
  DataFrame(SortByCode(df.columns, categories), df.index, df.rows)

(* ---- results of a call ---- *)
NoFrame == DataFrame(<<>>, <<>>, <<>>)
Unset == [kind |-> "unset", df |-> NoFrame]
ReturnNone == [kind |-> "None", df |-> NoFrame]
Return(df) == [kind |-> "DataFrame", df |-> df]
Raise(exc) == [kind |-> exc, df |-> NoFrame]

(* ---- calculate_cycle_flow_data, lines 66-122 ---- *)
EmptyCheckBeforeSelect(cd, names, frequency, on) ==
  LET duration_cols == SeqMap(DurationCol, names)
      kept == DropMissingTimestamps(FillnaTimedelta(cd), on)
  IN  IF Empty(kept) THEN ReturnNone
      ELSE IF ~HasColumns(cd, <<on>> \o duration_cols) THEN Raise("KeyError")
      ELSE Return(SortColumns(
             FillnaZero(DivideByDay(
               Resample(SelectColumns(kept, <<on>> \o duration_cols), frequency, on),
               duration_cols)),
             duration_cols))

calculate_cycle_flow_data(cd, names, frequency, on) ==
  LET duration_cols == SeqMap(DurationCol, names)
      wanted == <<on>> \o duration_cols
  IN  IF ~HasColumns(cd, wanted) THEN Raise("KeyError")
      ELSE
        LET selected == SelectColumns(cd, wanted)
            filled == FillnaTimedelta(selected)
            kept == DropMissingTimestamps(filled, on)
        IN  IF Empty(kept) THEN ReturnNone
            ELSE
              LET sampled == Resample(kept, frequency, on)
                  indays == DivideByDay(sampled, duration_cols)
                  zeroed == FillnaZero(indays)
              IN  Return(SortColumns(zeroed, duration_cols))

(* ---- the effects of write and write_chart on the outside world ---- *)
Outside(l, f, r, e) == [log |-> l, files |-> f, rendered |-> r, error |-> e]

LogEntry(level, msg) == [level |-> level, msg |-> msg]

(* CycleFlowCalculator.write_chart, lines 43-63 *)
write_chart(out, data, output_file) ==
  IF Len(data.df.index) = 0
  THEN Outside(Append(out.log,
                      LogEntry("warning", "Cannot draw cycle flow without data")),
               out.files, out.rendered, out.error)
  ELSE Outside(Append(out.log, LogEntry("info", "Writing cycle flow chart to %s")),
               out.files \cup {output_file},
               Append(out.rendered, data.df),
               out.error)

(* bool(x) as `if x:` evaluates it: None is false, a str is true when      *)
(* non-empty, a DataFrame raises ValueError (its truth value is ambiguous) *)
TruthOfString(x) == IF x = "" THEN "False" ELSE "True"

TruthOfResult(data) ==
  IF data.kind = "None" THEN "False" ELSE "ValueError"

(* CycleFlowCalculator.write, lines 32-41 *)
WriteWithoutPathCheck(out, st, data) ==
  IF TruthOfResult(data) = "ValueError"
  THEN Outside(out.log, out.files, out.rendered, "ValueError")
  ELSE IF TruthOfResult(data) = "True"
       THEN write_chart(out, data, st.cycle_flow_chart)
       ELSE Outside(Append(out.log,
                      LogEntry("info", "Did not match any entries for cycle flow chart")),
                    out.files, out.rendered, out.error)

write(out, st, data) ==
  IF TruthOfString(st.cycle_flow_chart) = "True"
  THEN IF TruthOfResult(data) = "ValueError"
       THEN Outside(out.log, out.files, out.rendered, "ValueError")
       ELSE IF TruthOfResult(data) = "True"
            THEN write_chart(out, data, st.cycle_flow_chart)
            ELSE Outside(Append(out.log,
                           LogEntry("info", "Did not match any entries for cycle flow chart")),
                         out.files, out.rendered, out.error)
  ELSE Outside(Append(out.log,
                 LogEntry("debug", "No output file specified for cycle flow chart")),
               out.files, out.rendered, out.error)

(* ---- inputs ---- *)
ActiveStageNames == {"Dev", "QA"}

DistinctSeqs(S, n) ==
  {s \in [1..n -> S] : \A i, j \in 1..n : i # j => s[i] # s[j]}

(* configured cycles: backlog, the active stages in some order, done *)
CycleLists ==
  {<<>>, <<[name |-> "Backlog"]>>}
  \cup {<<[name |-> "Backlog"]>> \o SeqMap(LAMBDA x : [name |-> x], mid)
          \o <<[name |-> "Done"]>> :
        mid \in UNION {DistinctSeqs(ActiveStageNames, n) :
                         n \in 0..Cardinality(ActiveStageNames)}}

ChartPaths == {"", "cycleflow.png"}

(* the tables CycleTimeCalculator may hand over: their columns ... *)
TableColumns ==
  { <<"cycle_time", "completed_timestamp", "Dev duration", "QA duration">>,
    <<"QA duration", "Dev duration", "cycle_time", "completed_timestamp">>,
    <<"cycle_time", "completed_timestamp", "Dev duration">> }

(* ... and their cells: a timestamp or NaT, a duration or NaT *)
TimestampCells == {NaT} \cup {Timestamp(x) : x \in 1..MaxDay}
DurationCells == {NaT, Timedelta(36)}

RowsOf(columns) ==
  LET durations == {c \in Range(columns) : c \notin {resample_on, "cycle_time"}}
  IN  {[c \in Range(columns) |->
          IF c = resample_on THEN ts
          ELSE IF c = "cycle_time" THEN NaT
          ELSE dv[c]] :
       ts \in TimestampCells, dv \in [durations -> DurationCells]}

(* a table of n rows with the given columns, indexed 1..n *)
Table(columns, rows) == DataFrame(columns, [i \in DOMAIN rows |-> i], rows)

(* ---- the state machine ---- *)
Init ==
  /\ settings \in [cycle : CycleLists, cycle_flow_chart : ChartPaths]
  /\ cycle_data = NoFrame
  /\ cycle_names = <<>>
  /\ result = Unset
  /\ pc = "constructed"
  /\ error = "none"
  /\ log = <<>>
  /\ files = {}
  /\ rendered = <<>>

(* CycleFlowCalculator.run, lines 21-30 *)
Run ==
  /\ pc = "constructed"
  /\ \E columns \in TableColumns, n \in 0..MaxRows :
       \E rows \in [1..n -> RowsOf(columns)] :
         cycle_data' = Table(columns, rows)
  /\ cycle_names' = CycleNames(settings.cycle)
  /\ result' = calculate_cycle_flow_data(cycle_data', cycle_names',
                                         DaysPerPeriod, resample_on)
  /\ pc' = IF result'.kind \in {"None", "DataFrame"} THEN "ran" ELSE "run_failed"
  /\ error' = IF result'.kind \in {"None", "DataFrame"} THEN error ELSE result'.kind
  /\ UNCHANGED <<settings, log, files, rendered>>

(* CycleFlowCalculator.write, lines 32-41, on the stored result of run *)
Write ==
  /\ pc = "ran"
  /\ LET out == write(Outside(log, files, rendered, error), settings, result)
     IN  /\ log' = out.log
         /\ files' = out.files
         /\ rendered' = out.rendered
         /\ error' = out.error
         /\ pc' = IF out.error = "none" THEN "written" ELSE "write_failed"
  /\ UNCHANGED <<settings, cycle_data, cycle_names, result>>

(* CycleFlowCalculator.write_chart, lines 43-63, called with the table     *)
(* that run returned                                                       *)
WriteChart ==
  /\ pc = "ran"
  /\ result.kind = "DataFrame"
  /\ \E output_file \in ChartPaths \ {""} :
       LET out == write_chart(Outside(log, files, rendered, error), result, output_file)
       IN  /\ log' = out.log
           /\ files' = out.files
           /\ rendered' = out.rendered
           /\ error' = out.error
  /\ pc' = "charted"
  /\ UNCHANGED <<settings, cycle_data, cycle_names, result>>

Next == Run \/ Write \/ WriteChart

Spec == Init /\ [][Next]_vars

(***************************************************************************)
(* The properties.  The definitions below restate, independently of the    *)
(* operators above, what the result of run is expected to be for the       *)
(* cycle_data and settings of the state.                                   *)
(***************************************************************************)
(* run has just returned or raised; nothing later changes what it left *)
Ran == pc \in {"ran", "run_failed"}
IsTable == result.kind = "DataFrame"
Names == cycle_names
DurationCols == [i \in 1..Len(Names) |-> Names[i] \o " duration"]
AllColumnsExist ==
  \A i \in 1..Len(DurationCols) : DurationCols[i] \in Range(cycle_data.columns)

(* an input row has a valid bucketing timestamp *)
Valid(r) == r[resample_on].t = "ts"
ValidIdx == {i \in 1..Len(cycle_data.rows) : Valid(cycle_data.rows[i])}

(* the period (labelled by its last day p) that day x belongs to *)
InPeriod(x, p) == p - DaysPerPeriod < x /\ x <= p
ItemsOf(p) == {i \in ValidIdx : InPeriod(cycle_data.rows[i][resample_on].n, p)}

(* hours of item i in column c, a missing duration counted as 0 *)
HoursOf(i, c) ==
  IF cycle_data.rows[i][c].t = "td" THEN cycle_data.rows[i][c].n ELSE 0

RECURSIVE TotalHours(_, _)
TotalHours(items, c) ==
  IF items = {} THEN 0
  ELSE LET i == CHOOSE x \in items : TRUE
       IN  HoursOf(i, c) + TotalHours(items \ {i}, c)

(* v is the float equal to hours/24 days *)
IsDays(v, hours) == v.t = "float" /\ v.d > 0 /\ v.n * 24 = hours * v.d

(* C1: in every returned table, the value of every period row in every     *)
(* active stage's column is the sum of that stage's durations (missing = 0) *)
(* over exactly the valid items of that period, in days; 36 hours are 1.5.  *)
C1_DurationSums ==
  (Ran /\ IsTable) =>
    \A k \in 1..Len(result.df.index) :
      \A j \in 1..Len(DurationCols) :
        LET p == result.df.index[k].n
            c == DurationCols[j]
            total == TotalHours(ItemsOf(p), c)
            v == result.df.rows[k][c]
        IN  /\ IsDays(v, total)
            /\ (total = 36 => v = [t |-> "float", n |-> 3, d |-> 2])

(* a period totals 36 hours = 1.5 days in one stage, and one of its items   *)
(* has a missing duration in another stage while contributing to the first  *)
C1_Witness ==
  /\ Ran /\ IsTable
  /\ \E k \in 1..Len(result.df.index) :
       /\ "Dev duration" \in DOMAIN result.df.rows[k]
       /\ result.df.rows[k]["Dev duration"] = [t |-> "float", n |-> 3, d |-> 2]
       /\ \E i \in ItemsOf(result.df.index[k].n) :
            /\ "QA duration" \in DOMAIN cycle_data.rows[i]
            /\ cycle_data.rows[i]["QA duration"] = NaT
            /\ cycle_data.rows[i]["Dev duration"] = Timedelta(36)
            /\ "QA duration" \in DOMAIN result.df.rows[k]

(* the table without the rows whose bucketing timestamp is missing or the  *)
(* zero sentinel                                                           *)
WithoutInvalidRows ==
  LET keep == SelectSeq([i \in 1..Len(cycle_data.rows) |-> i],
                        LAMBDA i : i \in ValidIdx)
  IN  [columns |-> cycle_data.columns,
       index |-> [k \in 1..Len(keep) |-> cycle_data.index[keep[k]]],
       rows |-> [k \in 1..Len(keep) |-> cycle_data.rows[keep[k]]]]

(* C2: rows whose bucketing timestamp is missing or the zero sentinel       *)
(* contribute nothing: the result is the result for the table without those *)
(* rows, and every period row lies within the periods of the valid items    *)
(* (none is placed where only an invalid row could have put it).            *)
C2_InvalidRowsContributeNothing ==
  Ran =>
    /\ result = calculate_cycle_flow_data(WithoutInvalidRows, Names,
                                          DaysPerPeriod, resample_on)
    /\ IsTable =>
         \A k \in 1..Len(result.df.index) :
           /\ result.df.index[k].t = "ts"
           /\ \E i \in ValidIdx :
                cycle_data.rows[i][resample_on].n
                  > result.df.index[k].n - DaysPerPeriod
           /\ \E i \in ValidIdx :
                cycle_data.rows[i][resample_on].n <= result.df.index[k].n

(* a table came back although the input held a row with a missing timestamp *)
(* that carried a duration                                                  *)
C2_Witness ==
  /\ Ran /\ IsTable
  /\ Len(DurationCols) >= 1
  /\ \E i \in 1..Len(cycle_data.rows) :
       /\ ~Valid(cycle_data.rows[i])
       /\ cycle_data.rows[i][DurationCols[1]] = Timedelta(36)

(* C3: with all named columns present, the result is the None sentinel when *)
(* no row has a valid timestamp (never a zero-row table or an error), and a *)
(* table whenever at least one row has one.                                 *)
C3_NoDataSentinel ==
  (Ran /\ AllColumnsExist) =>
    /\ ValidIdx = {} => (result.kind = "None" /\ pc # "run_failed")
    /\ ValidIdx # {} => result.kind = "DataFrame"

(* a non-empty table all of whose rows lack a valid timestamp gave None     *)
C3_Witness ==
  /\ Ran /\ AllColumnsExist
  /\ Len(cycle_data.rows) >= 2
  /\ ValidIdx = {}
  /\ Len(DurationCols) >= 1
  /\ \E i \in 1..Len(cycle_data.rows) :
       cycle_data.rows[i][DurationCols[1]] = Timedelta(36)
  /\ result.kind = "None"

(* C4: the columns of every returned table are exactly the "<n> duration"   *)
(* columns of cycle_names, in the order of cycle_names, whatever the order  *)
(* of the columns of the input table and whichever stages have data.        *)
C4_ColumnOrder ==
  (Ran /\ IsTable) =>
    /\ result.df.columns = DurationCols
    /\ \A k \in 1..Len(result.df.rows) :
         DOMAIN result.df.rows[k] = {DurationCols[j] : j \in 1..Len(DurationCols)}

(* two stages, listed in the opposite order of the input table's columns,   *)
(* the first of them with a total of zero in every period                   *)
C4_Witness ==
  /\ Ran /\ IsTable
  /\ Names = <<"QA", "Dev">>
  /\ cycle_data.columns =
       <<"cycle_time", "completed_timestamp", "Dev duration", "QA duration">>
  /\ result.df.columns = <<"QA duration", "Dev duration">>
  /\ \A k \in 1..Len(result.df.rows) :
       result.df.rows[k]["QA duration"] = [t |-> "float", n |-> 0, d |-> 1]
  /\ \E k \in 1..Len(result.df.rows) :
       result.df.rows[k]["Dev duration"] # [t |-> "float", n |-> 0, d |-> 1]

(* the labels of the periods that hold at least one valid item *)
OccupiedPeriods ==
  {p \in 1..(MaxDay + DaysPerPeriod) : p % DaysPerPeriod = 0 /\ ItemsOf(p) # {}}
IndexLabels == {result.df.index[k].n : k \in 1..Len(result.df.index)}
StrictlyAscending ==
  \A k \in 1..(Len(result.df.index) - 1) :
    result.df.index[k].n < result.df.index[k + 1].n

(* C5 as stated: one row per period holding a valid item and no row for any *)
(* other period, in strictly ascending order.                               *)
C5_SparsePeriods ==
  (Ran /\ IsTable) =>
    /\ IndexLabels = OccupiedPeriods
    /\ StrictlyAscending

(* C5 amended: one row per period from the earliest to the latest period    *)
(* holding a valid item, both included; a period in between without any     *)
(* item is a row of zeros; the rows are strictly ascending, none repeated.  *)
C5_ContiguousPeriods ==
  (Ran /\ IsTable) =>
    /\ OccupiedPeriods \subseteq IndexLabels
    /\ \A p \in IndexLabels :
         /\ p % DaysPerPeriod = 0
         /\ \E lo, hi \in OccupiedPeriods : lo <= p /\ p <= hi
    /\ \A p \in 1..(MaxDay + DaysPerPeriod) :
         (p % DaysPerPeriod = 0
            /\ \E lo, hi \in OccupiedPeriods : lo <= p /\ p <= hi)
         => p \in IndexLabels
    /\ StrictlyAscending
    /\ \A k \in 1..Len(result.df.index) :
         ItemsOf(result.df.index[k].n) = {} =>
           \A j \in 1..Len(DurationCols) :
             result.df.rows[k][DurationCols[j]] = [t |-> "float", n |-> 0, d |-> 1]

(* a period without any item lies between two periods that hold items and  *)
(* is a row of the table                                                    *)
C5_Witness ==
  /\ Ran /\ IsTable
  /\ Len(DurationCols) >= 1
  /\ \E k \in 2..(Len(result.df.index) - 1) :
       /\ ItemsOf(result.df.index[k].n) = {}
       /\ ItemsOf(result.df.index[k - 1].n) # {}
       /\ ItemsOf(result.df.index[k + 1].n) # {}

(* C6: when cycle_names holds a name without a "<n> duration" column in the *)
(* input table, the call fails with the error of the column selection (a    *)
(* KeyError, the configuration error of the specification) for every table, *)
(* also one without any valid timestamp: None is never returned instead.    *)
C6_MissingColumnFails ==
  (Ran /\ ~AllColumnsExist) =>
    /\ result.kind = "KeyError"
    /\ pc = "run_failed"
    /\ error = "KeyError"
    /\ log = <<>> /\ files = {} /\ rendered = <<>>

(* a missing column and a non-empty table without any valid timestamp *)
C6_Witness ==
  /\ Ran /\ ~AllColumnsExist
  /\ Len(cycle_data.rows) >= 1
  /\ ValidIdx = {}
  /\ result.kind = "KeyError"

Wrote == pc \in {"written", "write_failed"}

(* C7: with an output path configured and a table with at least one row as  *)
(* the result, write ends having rendered that table and saved the chart to *)
(* the path, without an error and without the 'no entries' note.            *)
C7_WriteRendersTable ==
  (Wrote /\ settings.cycle_flow_chart # "" /\ IsTable
     /\ Len(result.df.index) >= 1) =>
    /\ pc = "written"
    /\ error = "none"
    /\ rendered = <<result.df>>
    /\ files = {settings.cycle_flow_chart}
    /\ \A i \in 1..Len(log) :
         log[i].msg # "Did not match any entries for cycle flow chart"

(* C8: without an output path, or with None as the result, write renders    *)
(* nothing and writes no file; it logs one note (debug without a path, info *)
(* with a path and no data) and returns normally.                           *)
C8_NoPathOrNoData ==
  (Wrote /\ (settings.cycle_flow_chart = "" \/ result.kind = "None")) =>
    /\ pc = "written"
    /\ error = "none"
    /\ files = {}
    /\ rendered = <<>>
    /\ log = IF settings.cycle_flow_chart = ""
             THEN <<[level |-> "debug",
                     msg |-> "No output file specified for cycle flow chart"]>>
             ELSE <<[level |-> "info",
                     msg |-> "Did not match any entries for cycle flow chart"]>>

(* write returned with no path configured although run had returned a table *)
C8_Witness ==
  /\ pc = "written"
  /\ settings.cycle_flow_chart = ""
  /\ IsTable
  /\ log # <<>>

(* the configured stages without the first and the last, in order *)
MiddleNames ==
  IF Len(settings.cycle) <= 2 THEN <<>>
  ELSE [i \in 1..(Len(settings.cycle) - 2) |-> settings.cycle[i + 1].name]

(* C9: run aggregates over the configured stages without the first and the  *)
(* last, in configured order; with two or fewer configured stages the list  *)
(* is empty and the result is None or a table without duration columns, not *)
(* an error.                                                                *)
C9_ActiveStages ==
  Ran =>
    /\ cycle_names = MiddleNames
    /\ Len(settings.cycle) <= 2 =>
         /\ cycle_names = <<>>
         /\ result.kind \in {"None", "DataFrame"}
         /\ result.df.columns = <<>>
         /\ \A k \in 1..Len(result.df.rows) : DOMAIN result.df.rows[k] = {}

(* two configured stages, and a table of periods without columns came back *)
C9_Witness ==
  /\ Ran /\ IsTable
  /\ Len(settings.cycle) = 2
  /\ result.df.columns = <<>>
  /\ Len(result.df.index) >= 1

(* C10: a returned table has at least one period row, a table without rows  *)
(* gives None, and write_chart, given the result of run, never takes its    *)
(* zero-row branch.                                                         *)
C10_TableHasRows ==
  /\ IsTable => Len(result.df.index) >= 1
  /\ (Ran /\ Len(cycle_data.rows) = 0 /\ AllColumnsExist) => result.kind = "None"
  /\ \A i \in 1..Len(log) : log[i].level # "warning"
  /\ pc = "charted" =>
       (rendered = <<result.df>> /\ Len(rendered[1].index) >= 1 /\ files # {})

(* write_chart was given the table of run and drew it *)
C10_Witness ==
  /\ pc = "charted"
  /\ Len(rendered) = 1
  /\ Len(result.df.index) >= 2
====
